---- MODULE Spec2Model ----
(***************************************************************************)
(* readcompressability: the synchronized FASTQ reader of main() and the    *)
(* per-read zlib measurement, src/readcompressibility.go.                  *)
(*                                                                         *)
(* A line is a sequence of one-character strings.  The content of an input *)
(* file is revealed line by line as its scanner reads it; the length of    *)
(* every file is fixed from the start (nlines).                            *)
(***************************************************************************)
EXTENDS Integers, Sequences, FiniteSets, TLC

\* ------------------------------------------------------------- bounds
\* Longest input file, in lines.
MaxLines == 8
\* Largest value of -limit.
MaxLimit == 1

\* ------------------------------------------------------------- inputs
\* The positional arguments: none, one file, or two (paired-end) files.
FqChoices == {<< >>, <<"r1.fq">>, <<"r1.fq", "r2.fq">>}

\* -out: standard output, a plain file, a gzipped file.
OutChoices == {"", "out.tsv", "out.tsv.gz"}

\* Lines a file can hold at a header position: three with the sigil (two of
\* them with the same identity), one without it.
HeaderLines == {<<"@", "a">>, <<"@", "a", " ", "1">>, <<"@", "b">>, <<"a">>}

\* Lines a file can hold at a sequence position.
SeqLines == {<< >>, <<"A", "C">>}

\* The lines a file can hold at (0-based) position p.
LinesAt(p) ==
    CASE p % 4 = 0 -> HeaderLines
      [] p % 4 = 1 -> SeqLines
      [] p % 4 = 2 -> {<<"+">>}
      [] OTHER     -> {<<"I">>}

\* ------------------------------------------------------------- helpers
\* strings.HasSuffix(fn, ".gz")
HasGzSuffix(fn) == fn = "out.tsv.gz"

\* strings.HasPrefix(line, "@")
HasSigil(line) == Len(line) >= 1 /\ line[1] = "@"

RECURSIVE UpToSpace(_)
\* strings.Split(s, " ")[0]: the characters of s before its first space.
UpToSpace(s) ==
    IF s = << >> \/ Head(s) = " " THEN << >>
    ELSE <<Head(s)>> \o UpToSpace(Tail(s))

\* name := strings.Split(line[1:len(line)], " ")[0]
Name(line) == UpToSpace(Tail(line))

\* fmt.Fprintln(zwriter, line): the bytes written for one line.
Println(line) == line \o <<"\n">>

\* Bytes zlib adds around a short, all-literal payload: 2 of header, 10 bits
\* of fixed-Huffman block framing and the final empty stored block (6 bytes
\* together), 4 of Adler-32.
ZlibFraming == 12

\* A faulty variant of ZlibLen: the buffer is measured before the compressor
\* is closed, when nothing has reached it yet.
ZlibLenUnflushed(data) == 0

\* read_buf.Len() after zwriter.Close(), for the payload written.
ZlibLen(data) == Len(data) + ZlibFraming

\* line_num%4 == 0
IsHeaderPos(n) == n % 4 = 0

\* line_num%4 == 1
IsSeqPos(n) == n % 4 = 1

NoErr == [kind |-> "nil", line |-> -1, input |-> -1, expecting |-> << >>, got |-> << >>]

Min(a, b) == IF a < b THEN a ELSE b

VARIABLES
    fq,          \* positional arguments
    args,        \* Args: OutFilename, Limit, CheckNames
    nlines,      \* per input: number of lines of the file
    inputs,      \* per input: AmbiReader, "nil" | "open" | "closed"
    scanned,     \* per input: the lines its scanner has returned so far
    output,      \* AmbiWriter: [r, fp, gz]
    defers,      \* deferred calls of main, oldest first
    written,     \* rows written to output, in order
    nflushed,    \* how many of them have reached the destination
    line_num, read_count, full_len, read_name,
    read_buf,    \* payload fed to zwriter since the last Reset
    zwriter,     \* "nil" | "open" | "closed"
    i,           \* loop index
    err,         \* error returned by the loop
    pc,          \* position in main
    exit         \* "none" | "ok" | "fatal" | "panic"

vars == <<fq, args, nlines, inputs, scanned, output, defers, written, nflushed,
          line_num, read_count, full_len, read_name, read_buf, zwriter, i, err,
          pc, exit>>

N == Len(fq)
Streams == 0 .. (N - 1)

Init ==
    /\ fq \in FqChoices
    /\ args \in [OutFilename : OutChoices, Limit : 0 .. MaxLimit, CheckNames : BOOLEAN]
    /\ nlines \in [0 .. (Len(fq) - 1) -> 0 .. MaxLines]
    /\ inputs = [s \in 0 .. (Len(fq) - 1) |-> "nil"]
    /\ scanned = [s \in 0 .. (Len(fq) - 1) |-> << >>]
    /\ output = [r |-> "nil", fp |-> "nil", gz |-> "nil"]
    /\ defers = << >>
    /\ written = << >>
    /\ nflushed = 0
    /\ line_num = 0
    /\ read_count = 0
    /\ full_len = 0
    /\ read_name = << >>
    /\ read_buf = << >>
    /\ zwriter = "nil"
    /\ i = 0
    /\ err = NoErr
    /\ pc = IF Len(fq) = 0 THEN "open_output" ELSE "open_inputs"
    /\ exit = "none"

\* ------------------------------------------------------------- errors
\* fmt.Errorf("Line %d should be a fastq header line, got: %s\n", line_num, line)
MalformedErr(n, line) ==
    [kind |-> "MalformedRecord", line |-> n, input |-> -1, expecting |-> << >>, got |-> line]

\* fmt.Errorf("expecting read %s on line %d in input %d, got %s", read_name, line_num, i+1, name)
MismatchErr(expected, n, s, name) ==
    [kind |-> "NameMismatch", line |-> n, input |-> s + 1, expecting |-> expected, got |-> name]

\* fmt.Errorf("Expecting scanner %d to be able to scan\n", i)
DesyncErr(s) ==
    [kind |-> "Desync", line |-> -1, input |-> s, expecting |-> << >>, got |-> << >>]

\* log.Fatalf("Failed to open %s: %v\n", fn, err)
OpenErr(s) ==
    [kind |-> "OpenFailure", line |-> -1, input |-> s, expecting |-> << >>, got |-> << >>]

\* ------------------------------------------------------------- deferred calls
DeferInput(s) == [call |-> "inputs.Close", i |-> s]
DeferOutput == [call |-> "output.Close", i |-> -1]

Deferred(d) == \E k \in 1 .. Len(defers) : defers[k] = d

\* AmbiReader.Close
ReaderClose(a) == "closed"

\* AmbiWriter.Close: close the compressor when there is one, then the file.
WriterClose(a) ==
    [r |-> a.r,
     fp |-> "closed",
     gz |-> IF a.gz # "nil" THEN "closed" ELSE a.gz]

\* The deferred calls of main run, when main returns or panics.
RunDefers ==
    /\ inputs' = [s \in Streams |-> IF Deferred(DeferInput(s)) THEN ReaderClose(inputs[s])
                                    ELSE inputs[s]]
    /\ output' = IF Deferred(DeferOutput) THEN WriterClose(output) ELSE output
    /\ nflushed' = IF Deferred(DeferOutput) /\ output.gz # "nil" THEN Len(written)
                   ELSE nflushed
    /\ defers' = << >>

\* os.Exit(1) inside log.Fatal: the process ends where it stands.
Fatal ==
    /\ exit' = "fatal"
    /\ pc' = "exited"
    /\ UNCHANGED <<inputs, output, nflushed, defers>>

\* ------------------------------------------------------------- opening
\* One iteration of the loop that opens the inputs.
OpenInput ==
    /\ pc = "open_inputs"
    /\ i < N
    /\ \/ /\ inputs' = [inputs EXCEPT ![i] = "open"]
          /\ defers' = Append(defers, DeferInput(i))
          /\ i' = IF i + 1 = N THEN 0 ELSE i + 1
          /\ pc' = IF i + 1 = N THEN "open_output" ELSE "open_inputs"
          /\ UNCHANGED <<err, exit, output, nflushed>>
       \/ /\ err' = OpenErr(i)
          /\ Fatal
          /\ UNCHANGED i
    /\ UNCHANGED <<fq, args, nlines, scanned, written, line_num, read_count,
                   full_len, read_name, read_buf, zwriter>>

\* AmbiWriter.Stdout, or AmbiWriter.Open of a file that can be created.
WriterOpen(fn) ==
    IF fn = "" THEN [r |-> "stdout", fp |-> "nil", gz |-> "nil"]
    ELSE IF HasGzSuffix(fn) THEN [r |-> "gz", fp |-> "open", gz |-> "open"]
    ELSE [r |-> "fp", fp |-> "open", gz |-> "nil"]

\* Prepare the output writer, then the scanners and the counters.
OpenOutput ==
    /\ pc = "open_output"
    /\ \/ /\ output' = WriterOpen(args.OutFilename)
          /\ defers' = IF args.OutFilename = "" THEN defers
                       ELSE Append(defers, DeferOutput)
          /\ pc' = "top"
          /\ UNCHANGED <<err, exit, inputs, nflushed>>
       \/ /\ args.OutFilename # ""
          /\ err' = OpenErr(N)
          /\ Fatal
    /\ UNCHANGED <<fq, args, nlines, scanned, written, line_num, read_count,
                   full_len, read_name, read_buf, zwriter, i>>

\* ------------------------------------------------------------- the loop
\* A faulty variant of LimitReached: one read too many.
LimitReachedLate(limit, count) == limit > 0 /\ count > limit

\* A faulty variant of LimitReached: 0 is taken as a limit.
LimitReachedAtZero(limit, count) == count >= limit

\* args.Limit > 0 && read_count >= args.Limit
LimitReached(limit, count) == limit > 0 /\ count >= limit

\* Top of the loop: stop at the limit, else start a pass over the inputs.
Top ==
    /\ pc = "top"
    /\ IF LimitReached(args.Limit, read_count)
       THEN /\ err' = NoErr
            /\ pc' = "returned"
            /\ UNCHANGED <<full_len, i>>
       ELSE /\ full_len' = 0
            /\ i' = 0
            /\ pc' = IF N = 0 THEN "end" ELSE "scan"
            /\ UNCHANGED err
    /\ UNCHANGED <<fq, args, nlines, inputs, scanned, output, defers, written,
                   nflushed, line_num, read_count, read_name, read_buf, zwriter, exit>>

\* A faulty variant of Measured: only the first input is measured.
MeasuredFirstOnly(s) == s = 0

\* Whether the sequence line of input s is measured.
Measured(s) == TRUE

\* A faulty variant of NameChecked: names are never compared.
NameCheckedNever(s) == FALSE

\* A faulty variant of NameChecked: names are compared whatever -check says.
NameCheckedAlways(s) == s # 0

\* Whether the name of input s is compared with read_name.
NameChecked(s) == s # 0 /\ args.CheckNames

\* A faulty variant of EofErr: the end of any input ends the run quietly.
EofErrQuiet(s) == NoErr

\* A faulty variant of EofErr: the end of any input is an error.
EofErrStrict(s) == DesyncErr(s)

\* What the loop returns when input s has no line left.
EofErr(s) == IF s = 0 THEN NoErr ELSE DesyncErr(s)

\* A faulty variant of Reset: the buffer keeps what earlier reads left in it.
ResetKeeps(buf) == buf

\* read_buf.Reset()
Reset(buf) == << >>

\* A faulty variant of Return: the error is kept but the loop goes on.
ReturnGoesOn(e) ==
    /\ err' = e
    /\ pc' = "top"
    /\ UNCHANGED i

\* Leave the loop with error e.
Return(e) ==
    /\ err' = e
    /\ pc' = "returned"
    /\ UNCHANGED i

\* A faulty variant of NextInput: the same input is scanned again.
NextInputAgain ==
    /\ i' = i
    /\ pc' = "scan"
    /\ UNCHANGED err

\* Go on to the next input, or to the end of the pass.
NextInput ==
    /\ i' = i + 1
    /\ pc' = IF i + 1 = N THEN "end" ELSE "scan"
    /\ UNCHANGED err

\* One iteration of the loop over the inputs: scan input i.
Scan ==
    /\ pc = "scan"
    /\ i < N
    /\ IF Len(scanned[i]) < nlines[i]
       THEN \E line \in LinesAt(Len(scanned[i])) :
              /\ scanned' = [scanned EXCEPT ![i] = Append(@, line)]
              /\ IF IsHeaderPos(line_num)
                 THEN IF ~HasSigil(line)
                      THEN /\ Return(MalformedErr(line_num, line))
                           /\ UNCHANGED <<read_name, read_buf, zwriter, full_len>>
                      ELSE IF i = 0
                      THEN /\ read_name' = Name(line)
                           /\ read_buf' = Reset(read_buf)
                           /\ zwriter' = "open"
                           /\ NextInput
                           /\ UNCHANGED full_len
                      ELSE IF NameChecked(i) /\ Name(line) # read_name
                      THEN /\ Return(MismatchErr(read_name, line_num, i, Name(line)))
                           /\ UNCHANGED <<read_name, read_buf, zwriter, full_len>>
                      ELSE /\ NextInput
                           /\ UNCHANGED <<read_name, read_buf, zwriter, full_len>>
                 ELSE IF IsSeqPos(line_num) /\ Measured(i)
                 THEN /\ full_len' = full_len + Len(line)
                      /\ read_buf' = read_buf \o Println(line)
                      /\ NextInput
                      /\ UNCHANGED <<read_name, zwriter>>
                 ELSE /\ NextInput
                      /\ UNCHANGED <<read_name, read_buf, zwriter, full_len>>
       ELSE /\ Return(EofErr(i))
            /\ UNCHANGED <<scanned, read_name, read_buf, zwriter, full_len>>
    /\ UNCHANGED <<fq, args, nlines, inputs, output, defers, written, nflushed,
                   line_num, read_count, exit>>

\* r := float64(full_len) / float64(compressed_len), as "%0.4f" prints it: in
\* ten-thousandths, rounded to the nearest, a tie to the even one; -1 stands
\* for the +Inf or NaN of a division by 0.
Ratio(l, c) ==
    IF c = 0 THEN -1
    ELSE LET q == (l * 10000) \div c
             r == (l * 10000) % c
         IN  IF 2 * r > c \/ (2 * r = c /\ q % 2 = 1) THEN q + 1 ELSE q

\* The row of the read that ends: name, raw length, compressed length, ratio.
Row ==
    LET compressed_len == ZlibLen(read_buf) IN
    [name |-> read_name, full_len |-> full_len, compressed_len |-> compressed_len,
     ratio |-> Ratio(full_len, compressed_len)]

\* A faulty variant of EndOfRead: the read ends with its quality line.
EndOfReadAtQuality(n) == n % 4 = 3

\* A faulty variant of EndOfRead: the read is emitted after its separator too.
EndOfReadTwice(n) == n % 4 = 1 \/ n % 4 = 2

\* line_num%4 == 1, after the pass: the read is measured.
EndOfRead(n) == n % 4 = 1

\* End of a pass: emit the row of the read when it is due, count the line.
End ==
    /\ pc = "end"
    /\ IF EndOfRead(line_num)
       THEN IF zwriter = "nil"
            THEN \* zwriter.Close() on a nil *zlib.Writer: panic, deferred calls run
                 /\ exit' = "panic"
                 /\ pc' = "exited"
                 /\ RunDefers
                 /\ UNCHANGED <<written, read_count, zwriter, line_num>>
            ELSE /\ zwriter' = "closed"
                 /\ written' = Append(written, Row)
                 /\ nflushed' \in (IF output.r = "gz" THEN nflushed ELSE Len(written) + 1)
                                    .. (Len(written) + 1)
                 /\ read_count' = read_count + 1
                 /\ line_num' = line_num + 1
                 /\ pc' = "top"
                 /\ UNCHANGED <<exit, inputs, output, defers>>
       ELSE /\ line_num' = line_num + 1
            /\ pc' = "top"
            /\ UNCHANGED <<written, nflushed, read_count, zwriter, exit, inputs,
                           output, defers>>
    /\ UNCHANGED <<fq, args, nlines, scanned, full_len, read_name, read_buf, i, err>>

\* After the loop: log.Fatal(err), or the summary line and the return of main.
Finish ==
    /\ pc = "returned"
    /\ IF err # NoErr
       THEN Fatal
       ELSE /\ exit' = "ok"
            /\ pc' = "exited"
            /\ RunDefers
    /\ UNCHANGED <<fq, args, nlines, scanned, written, line_num, read_count,
                   full_len, read_name, read_buf, zwriter, i, err>>

\* A faulty variant of Summary: the reads are counted, not the lines.
SummaryOfReads == read_count

\* log.Println("processed", line_num, "lines"): the count a successful run reports.
Summary == line_num

Next == OpenInput \/ OpenOutput \/ Top \/ Scan \/ End \/ Finish

Spec == Init /\ [][Next]_vars

\* ------------------------------------------------------------- run states
\* The run of the reader: Running, then Done or Failed(kind).
Running == pc \in {"top", "scan", "end"}
Done == pc \in {"returned", "exited"} /\ exit # "panic" /\ err = NoErr
Failed(kind) == pc \in {"returned", "exited"} /\ err.kind = kind
Ended == pc \in {"returned", "exited"}

TypeOK ==
    /\ fq \in FqChoices
    /\ nflushed \in 0 .. Len(written)
    /\ read_count = Len(written)
    /\ pc \in {"open_inputs", "open_output", "top", "scan", "end", "returned", "exited"}
    /\ exit \in {"none", "ok", "fatal", "panic"}

\* ------------------------------------------------------------- the input, as read
\* The header line and the sequence line of read k (k = 1, 2, ...) of input s.
HeaderLine(s, k) == scanned[s][4 * (k - 1) + 1]
SeqLine(s, k) == scanned[s][4 * (k - 1) + 2]

\* Every header line read from input s starts with the sigil.
WellFormed(s) ==
    \A p \in 1 .. Len(scanned[s]) : IsHeaderPos(p - 1) => HasSigil(scanned[s][p])

\* Input s is made of whole 4-line records.
WholeRecords(s) == nlines[s] % 4 = 0

\* The reads both inputs have a header for carry the same identity.
NamesAgree ==
    \A p \in 1 .. Len(scanned[1]) :
        (IsHeaderPos(p - 1) /\ p <= Len(scanned[0])
            /\ HasSigil(scanned[0][p]) /\ HasSigil(scanned[1][p]))
        => Name(scanned[0][p]) = Name(scanned[1][p])

\* Two inputs a paired-end run accepts: well-formed headers, and the same
\* identities where names are checked.
WellFormedPair ==
    /\ N = 2
    /\ WellFormed(0) /\ WellFormed(1)
    /\ (args.CheckNames => NamesAgree)

\* The loop was entered and has returned.
RunEnded == Ended /\ err.kind # "OpenFailure"

RECURSIVE RawLen(_, _)
\* Sum of the lengths of the sequence lines of read k over inputs s, s+1, ...
RawLen(k, s) == IF s >= N THEN 0 ELSE Len(SeqLine(s, k)) + RawLen(k, s + 1)

RECURSIVE Payload(_, _)
\* The sequence lines of read k of inputs s, s+1, ..., each with its newline.
Payload(k, s) == IF s >= N THEN << >> ELSE Println(SeqLine(s, k)) \o Payload(k, s + 1)

\* ------------------------------------------------------------- C1
\* C1 (as stated): in a two-input run the raw length of every emitted row is
\* the length of the sequence line of input 0 alone, and the compressed length
\* is that of input 0's sequence line alone.
C1_FirstStreamOnly ==
    N = 2 =>
        \A k \in 1 .. Len(written) :
            /\ written[k].full_len = Len(SeqLine(0, k))
            /\ written[k].compressed_len = ZlibLen(Println(SeqLine(0, k)))

\* C1 (amended): the sequence line of every input is measured: the raw length
\* of an emitted row is the sum of the lengths of the sequence lines of all
\* inputs for that read, and the compressed length is that of those lines
\* written one after the other, in input order, each with its newline.
C1_AllStreamsMeasured ==
    \A k \in 1 .. Len(written) :
        /\ written[k].full_len = RawLen(k, 0)
        /\ written[k].compressed_len = ZlibLen(Payload(k, 0))

\* A row of a two-input run whose second input has a non-empty sequence line.
C1_Witness ==
    /\ N = 2
    /\ Len(written) >= 1
    /\ SeqLine(0, 1) = <<"A", "C">>
    /\ SeqLine(1, 1) = <<"A", "C">>
    /\ written[1].full_len = 4

\* ------------------------------------------------------------- C2
\* C2 (as stated): a row is emitted for a read only after every input has
\* produced all 4 lines of it.
C2_RowAfterFourLines ==
    \A s \in Streams : Len(scanned[s]) >= 4 * Len(written)

\* C2 (amended): a row is emitted for a read only after every input has
\* produced the header and the sequence line of it, the separator and the
\* quality line are not awaited; so an input whose last record is cut after
\* its sequence line gets a row for that record.
C2_RowAfterSequenceLine ==
    /\ Len(written) >= 1 =>
           \A s \in Streams : Len(scanned[s]) >= 4 * (Len(written) - 1) + 2
    /\ (Done /\ N >= 1 /\ args.Limit = 0 /\ nlines[0] % 4 = 2)
           => Len(written) = (nlines[0] \div 4) + 1

\* A finished two-input run whose inputs end after the sequence line of the
\* second record, with a row for it.
C2_Witness ==
    /\ Done
    /\ N = 2
    /\ args.Limit = 0
    /\ nlines[0] = 6 /\ nlines[1] = 6
    /\ Len(written) = 2

\* ------------------------------------------------------------- C3
\* C3: a single input of R well-formed 4-line records ends in Done with
\* R rows when the limit is 0 and min(R, L) rows when the limit is L > 0.
C3_RowCount ==
    (RunEnded /\ N = 1 /\ WholeRecords(0) /\ WellFormed(0))
    => /\ Done
       /\ Len(written) = IF args.Limit = 0 THEN nlines[0] \div 4
                         ELSE Min(nlines[0] \div 4, args.Limit)

\* A finished run over two records with the limit 1, and one row.
C3_Witness ==
    /\ Done
    /\ N = 1
    /\ nlines[0] = 8
    /\ WellFormed(0)
    /\ args.Limit = 1
    /\ Len(written) = 1

\* ------------------------------------------------------------- C4
\* C4 (as stated): two well-formed inputs, no limit, one with fewer records
\* than the other, whichever it is: the run ends in Failed(Desync).
C4_DesyncEitherWay ==
    (RunEnded /\ WellFormedPair /\ WholeRecords(0) /\ WholeRecords(1)
        /\ args.Limit = 0 /\ nlines[0] # nlines[1])
    => Failed("Desync")

\* C4 (amended): two well-formed inputs, no limit: when input 1 has fewer
\* records than input 0 the run ends in Failed(Desync), naming scanner 1, with
\* one row emitted for every record of input 1 and for the first record input
\* 1 lacks none; when input 0 has fewer records than input 1 the run ends in
\* Done with one row for every record of input 0.
C4_DesyncWhenSecondShorter ==
    (RunEnded /\ WellFormedPair /\ WholeRecords(0) /\ WholeRecords(1) /\ args.Limit = 0)
    => /\ nlines[1] < nlines[0] =>
              /\ Failed("Desync")
              /\ err.input = 1
              /\ Len(written) = nlines[1] \div 4
       /\ nlines[0] < nlines[1] =>
              /\ Done
              /\ Len(written) = nlines[0] \div 4

\* A run that failed with Desync after the one record of input 1.
C4_Witness ==
    /\ Failed("Desync")
    /\ WellFormedPair
    /\ args.Limit = 0
    /\ nlines[0] = 8 /\ nlines[1] = 4
    /\ Len(written) = 1

\* ------------------------------------------------------------- C5
\* Input 0 is about to be scanned and has no line left.
FirstInputExhausted == pc = "scan" /\ i = 0 /\ Len(scanned[0]) = nlines[0]

\* C5: when input 0 has no line at its pull the run ends in Done, no other
\* input is pulled in that step however many lines it still holds, and the
\* rows emitted so far stay: once Done, the run stays Done, nothing more is
\* read, no row is added or dropped, and a successful exit leaves every row in
\* the destination.
C5_FirstInputEndsRun ==
    /\ [][/\ FirstInputExhausted =>
                (Done' /\ scanned' = scanned /\ written' = written /\ nflushed' = nflushed)
          /\ Done =>
                (Done' /\ scanned' = scanned /\ written' = written /\ nflushed' >= nflushed)
         ]_vars
    /\ [](exit = "ok" => nflushed = Len(written))

\* A run that ended in Done on the end of input 0, one row emitted, while
\* input 1 still holds lines.
C5_Witness ==
    /\ Done
    /\ N = 2
    /\ args.Limit = 0
    /\ Len(scanned[0]) = nlines[0]
    /\ Len(scanned[1]) < nlines[1]
    /\ Len(written) = 1
    /\ exit = "ok"

\* ------------------------------------------------------------- C6
\* C6: with a limit L > 0 no state has more than L rows; when every input
\* holds at least L well-formed records the run ends in Done with exactly L
\* rows; with the limit 0 a run ends in Done only on the end of input 0.
C6_Limit ==
    /\ args.Limit > 0 => (Len(written) <= args.Limit /\ read_count <= args.Limit)
    /\ (RunEnded /\ N >= 1 /\ args.Limit > 0
            /\ (\A s \in Streams : nlines[s] >= 4 * args.Limit /\ WellFormed(s))
            /\ (N = 2 => WellFormedPair))
       => (Done /\ Len(written) = args.Limit)
    /\ (Done /\ N >= 1 /\ args.Limit = 0) => Len(scanned[0]) = nlines[0]

\* A two-input run stopped by the limit 1 with one row, lines left unread,
\* names being checked.
C6_Witness ==
    /\ Done
    /\ N = 2
    /\ args.Limit = 1
    /\ args.CheckNames
    /\ nlines[0] = 8 /\ nlines[1] = 4
    /\ Len(scanned[0]) < nlines[0]
    /\ Len(written) = 1

\* ------------------------------------------------------------- C7
\* C7: with name checking and two inputs, a run fails with NameMismatch only
\* where the identity of input 1 differs from that of input 0 in the same
\* read, and it does fail as soon as such a header of input 1 is read: before
\* the row of that read, after the rows of all earlier reads, the error
\* citing the line (the 0-based line_num of that header), the input (its
\* 1-based ordinal, i+1) and both identities.
C7_NameMismatch ==
    /\ (args.CheckNames /\ N = 2 /\ NamesAgree) => ~Failed("NameMismatch")
    /\ Failed("NameMismatch") =>
           /\ args.CheckNames
           /\ N = 2
           /\ LET p == Len(scanned[1]) IN
                  /\ p >= 1
                  /\ IsHeaderPos(p - 1)
                  /\ Len(scanned[0]) = p
                  /\ Name(scanned[1][p]) # Name(scanned[0][p])
                  /\ err.line = p - 1
                  /\ err.input = 1 + 1
                  /\ err.expecting = Name(scanned[0][p])
                  /\ err.got = Name(scanned[1][p])
                  /\ Len(written) = (p - 1) \div 4
    /\ (args.CheckNames /\ N = 2 /\ ~NamesAgree) => Failed("NameMismatch")

\* A run that failed with NameMismatch on the header of the second read, one
\* row emitted, the two headers differing in more than their identity.
C7_Witness ==
    /\ Failed("NameMismatch")
    /\ err.line = 4
    /\ err.input = 2
    /\ Len(written) = 1
    /\ HeaderLine(0, 1) = <<"@", "a">>
    /\ HeaderLine(1, 1) = <<"@", "a", " ", "1">>
    /\ HeaderLine(0, 2) = <<"@", "a", " ", "1">>
    /\ HeaderLine(1, 2) = <<"@", "b">>

\* ------------------------------------------------------------- C8
\* C8: a line at a header position of any input that lacks the sigil ends the
\* run in Failed(MalformedRecord), and the error names the line number and
\* the input (by index or by ordinal) the line was read from.
C8_MalformedNamesLineAndStream ==
    /\ (\E s \in Streams : ~WellFormed(s)) => Failed("MalformedRecord")
    /\ Failed("MalformedRecord") =>
           /\ err.line = Len(scanned[i]) - 1
           /\ err.input \in {i, i + 1}

\* ------------------------------------------------------------- C9
\* C9: when the process has ended, on whatever path, every input that was
\* opened is closed and so are the output file and its compressor.
C9_AllClosedAtExit ==
    pc = "exited" =>
        /\ \A s \in Streams : inputs[s] # "open"
        /\ output.fp # "open"
        /\ output.gz # "open"

\* ------------------------------------------------------------- C10
\* C10: when a run has failed with Desync, MalformedRecord or NameMismatch
\* after k rows, the destination holds exactly those k rows at the end of
\* the process, whatever the kind of output.
C10_RowsKeptOnFailure ==
    (pc = "exited" /\ err.kind \in {"Desync", "MalformedRecord", "NameMismatch"})
    => nflushed = Len(written)

\* ------------------------------------------------------------- C11
RECURSIVE LinesConsumed(_)
\* The lines read from inputs s, s+1, ... together.
LinesConsumed(s) == IF s >= N THEN 0 ELSE Len(scanned[s]) + LinesConsumed(s + 1)

\* C11 (as stated): after a successful run of one or two inputs the summary
\* reports the number of lines read from all inputs together.
C11_SummaryCountsAllLines ==
    (exit = "ok" /\ N >= 1) => Summary = LinesConsumed(0)

\* C11 (amended): after a successful run of one or two inputs the summary
\* reports the number of lines read from each input, which is the number of
\* passes of the loop that were completed; the lines read from all inputs
\* together are N times that count.
C11_SummaryCountsLinesPerInput ==
    (exit = "ok" /\ N >= 1) =>
        /\ \A s \in Streams : Summary = Len(scanned[s])
        /\ LinesConsumed(0) = N * Summary

\* A successful two-input run that read 6 lines of each input.
C11_Witness ==
    /\ exit = "ok"
    /\ N = 2
    /\ Summary = 6
    /\ LinesConsumed(0) = 12

\* ------------------------------------------------------------- C12
\* C12: with no positional argument the run reads one stream and ends in Done.
C12_NoArgumentReadsStdin ==
    (RunEnded /\ N = 0) => (Done /\ exit = "ok")

\* ------------------------------------------------------------- C13
\* C13: without name checking the outcome of a two-input run is a function of
\* what the identities of input 1 do not enter: no run fails with
\* NameMismatch, a run fails with MalformedRecord exactly when a header read
\* lacks the sigil and with Desync only when input 1 is out of lines; every
\* row carries the identity of input 0 and the measure of the sequence lines;
\* and a run whose identities differ goes on past the differing header.
C13_NamesIgnoredWithoutCheck ==
    []((~args.CheckNames /\ N = 2) =>
        LET wf == WellFormed(0) /\ WellFormed(1) IN
        /\ ~Failed("NameMismatch")
        /\ RunEnded => err.kind \in {"nil", "MalformedRecord", "Desync"}
        /\ Failed("MalformedRecord") <=> ~wf
        /\ Failed("Desync") => (Len(scanned[1]) = nlines[1] /\ Len(scanned[0]) = nlines[1] + 1)
        /\ (Done /\ args.Limit = 0) => Len(scanned[0]) = nlines[0]
        /\ \A k \in 1 .. Len(written) :
              LET raw == RawLen(k, 0)
                  zlen == ZlibLen(Payload(k, 0))
              IN  written[k] = [name |-> Name(HeaderLine(0, k)),
                                full_len |-> raw,
                                compressed_len |-> zlen,
                                ratio |-> Ratio(raw, zlen)]
        /\ (Ended /\ wf /\ ~NamesAgree) => (Done \/ Failed("Desync")))

\* A two-input run without name checking that ended in Done with two rows,
\* the identities of the inputs differing in the first read.
C13_Witness ==
    /\ ~args.CheckNames
    /\ N = 2
    /\ Done
    /\ Len(written) = 2
    /\ HeaderLine(0, 1) = <<"@", "a">>
    /\ HeaderLine(1, 1) = <<"@", "b">>
    /\ written[1].name = <<"a">>

\* ------------------------------------------------------------- C14
\* C14: the accumulator carries nothing from one read to the next: once the
\* header of input 0 is processed the buffer is empty with a compressor open
\* on it until the sequence lines come, every pass starts with the raw length
\* 0, and the raw and compressed lengths of row k are those of the sequence
\* lines of read k alone.
C14_FreshAccumulator ==
    /\ [][(pc = "scan" /\ i = 0 /\ IsHeaderPos(line_num) /\ i' = 1)
          => (read_buf' = << >> /\ zwriter' = "open")]_vars
    /\ []((pc = "scan" /\ i = 0) => full_len = 0)
    /\ []((N >= 1 /\ pc \in {"scan", "end"} /\ IsHeaderPos(line_num)
              /\ (pc = "end" \/ i >= 1)) => (read_buf = << >> /\ zwriter = "open"))
    /\ [](\A k \in 1 .. Len(written) :
              /\ written[k].full_len = RawLen(k, 0)
              /\ written[k].compressed_len = Len(Payload(k, 0)) + ZlibFraming)

\* Two rows of one input: a first read with a sequence, a second with an
\* empty sequence line, measured as empty.
C14_Witness ==
    /\ N = 1
    /\ Len(written) = 2
    /\ SeqLine(0, 1) = <<"A", "C">>
    /\ SeqLine(0, 2) = << >>
    /\ written[2].full_len = 0
    /\ written[2].compressed_len = 13

\* ------------------------------------------------------------- C15
\* C15: rows are emitted once per read and in input order: row k carries the
\* identity of the k-th header of input 0, while the loop runs there is one
\* row for every pass over sequence lines that was completed, read_count is
\* the number of rows, and a step adds at most one row at the end, at the
\* end of a pass over sequence lines, and adds 1 to read_count with it.
C15_OneRowPerReadInOrder ==
    /\ [](\A k \in 1 .. Len(written) :
              /\ N >= 1
              /\ Len(scanned[0]) >= 4 * (k - 1) + 2
              /\ written[k].name = Name(HeaderLine(0, k)))
    /\ [](read_count = Len(written))
    /\ []((N >= 1 /\ Running) => Len(written) = (line_num + 2) \div 4)
    /\ [][\/ (written' = written /\ read_count' = read_count)
          \/ /\ pc = "end" /\ IsSeqPos(line_num)
             /\ Len(written') = Len(written) + 1
             /\ SubSeq(written', 1, Len(written)) = written
             /\ read_count' = read_count + 1]_vars

\* Two rows with different identities, in the order of the headers of input 0.
C15_Witness ==
    /\ N = 2
    /\ Len(written) = 2
    /\ read_count = 2
    /\ HeaderLine(0, 1) = <<"@", "b">>
    /\ HeaderLine(0, 2) = <<"@", "a", " ", "1">>
    /\ written[1].name = <<"b">>
    /\ written[2].name = <<"a">>

\* ------------------------------------------------------------- C16
\* C16: the inputs advance in lock-step: at the top of the loop every input
\* has had line_num lines read; within a pass the inputs before i have one
\* line more and the others have line_num; the numbers of lines read from two
\* inputs never differ by more than 1; so the k-th header of every input is
\* read in the pass in which line_num is that of the k-th header of input 0.
C16_LockStep ==
    /\ [](pc = "top" => \A s \in Streams : Len(scanned[s]) = line_num)
    /\ []((pc \in {"scan", "end"}) =>
              \A s \in Streams :
                  Len(scanned[s]) = IF s < i THEN line_num + 1 ELSE line_num)
    /\ [](\A s, t \in Streams :
              /\ Len(scanned[s]) - Len(scanned[t]) <= 1
              /\ s < t => Len(scanned[s]) >= Len(scanned[t]))
    /\ [][\A s \in Streams :
              scanned'[s] # scanned[s] =>
                  /\ pc = "scan" /\ s = i
                  /\ Len(scanned'[s]) = line_num + 1
                  /\ \A t \in Streams : t # s => scanned'[t] = scanned[t]]_vars

\* The second input in the middle of a pass: input 0 has its second header,
\* input 1 is about to be read.
C16_Witness ==
    /\ N = 2
    /\ pc = "scan"
    /\ i = 1
    /\ line_num = 4
    /\ Len(scanned[0]) = 5
    /\ Len(scanned[1]) = 4

\* ------------------------------------------------------------- C17
\* C17: in every row the compressed length is at least 1 and larger than
\* the payload, an empty sequence line included, so the ratio is that of a
\* defined division; the raw and compressed lengths are the integers
\* measured; and the ratio, in ten-thousandths, is the integer nearest to
\* 10000 * L / C.
C17_RatioOfExactLengths ==
    [](\A k \in 1 .. Len(written) :
        LET L == written[k].full_len
            C == written[k].compressed_len
            R == written[k].ratio
        IN  /\ C >= 1
            /\ C > Len(Payload(k, 0))
            /\ L = RawLen(k, 0)
            /\ L \in Nat /\ C \in Nat
            /\ R # -1
            /\ 2 * (10000 * L - R * C) <= C
            /\ 2 * (R * C - 10000 * L) <= C)

\* Two rows of one input: an empty sequence line, measured 0 over 13, and a
\* sequence of two bases, measured 2 over 15 and printed 0.1333.
C17_Witness ==
    /\ N = 1
    /\ Len(written) = 2
    /\ written[1].full_len = 0
    /\ written[1].compressed_len = 13
    /\ written[1].ratio = 0
    /\ written[2].full_len = 2
    /\ written[2].compressed_len = 15
    /\ written[2].ratio = 1333

\* ------------------------------------------------------------- C18
\* The process runs on until it exits.
FairSpec == Spec /\ WF_vars(Next)

\* Where a run of one or two inputs stands: the passes done, then the place
\* in the current pass; the return and the exit come last.
Rank ==
    CASE pc = "open_inputs" -> i - N - 1
      [] pc = "open_output" -> -1
      [] pc = "top"         -> line_num * (N + 2)
      [] pc = "scan"        -> line_num * (N + 2) + 1 + i
      [] pc = "end"         -> line_num * (N + 2) + N + 1
      [] pc = "returned"    -> (nlines[0] + 1) * (N + 2)
      [] OTHER              -> (nlines[0] + 1) * (N + 2) + 1

\* C18: a run of one or two inputs terminates: a pass is started at most
\* nlines[0] + 1 times, every step moves the run forward in a bounded rank,
\* no state before the exit is stuck, and the run ends in Done or Failed (or
\* on an OpenFailure before the loop); and once the loop has returned no line
\* is read and no row is emitted.
C18_Terminates ==
    /\ [](N >= 1 => line_num <= nlines[0])
    /\ [][N >= 1 => Rank' > Rank]_vars
    /\ []((N >= 1 /\ pc # "exited") => ENABLED Next)
    /\ []((N >= 1 /\ Ended) =>
              (Done \/ (\E kind \in {"Desync", "MalformedRecord", "NameMismatch", "OpenFailure"} :
                           Failed(kind))))
    /\ [][(N >= 1 /\ Ended) =>
              (Ended' /\ scanned' = scanned /\ written' = written /\ err' = err)]_vars

\* The same termination, as the liveness property of the process that keeps
\* running: under FairSpec a run of one or two inputs does exit.
RunExits == N >= 1 => <>(pc = "exited")

\* A run that used every pass it can: the pass after the last line of input
\* 0 found it empty, and the process has exited.
C18_Witness ==
    /\ N = 2
    /\ pc = "exited"
    /\ Done
    /\ nlines[0] = 8
    /\ line_num = 8

\* ------------------------------------------------------------- C19
\* C19: a run stopped by the limit L > 0 stops at the first pass after the
\* L-th row: line_num is 4*(L-1)+2, every input has had exactly that many
\* lines read, and the separator and the quality line of the L-th read are
\* not read; and a run with L rows under the limit L was stopped by it.
C19_StopsRightAfterLimit ==
    (N >= 1 /\ args.Limit > 0 /\ Len(written) = args.Limit /\ pc \in {"top", "returned", "exited"})
    => /\ line_num = 4 * (args.Limit - 1) + 2
       /\ \A s \in Streams : Len(scanned[s]) = 4 * (args.Limit - 1) + 2
       /\ pc # "top" => Done

\* A two-input run stopped by the limit 1 while both inputs hold the rest of
\* their first record and a second one.
C19_Witness ==
    /\ N = 2
    /\ args.Limit = 1
    /\ Done
    /\ pc = "exited"
    /\ Len(written) = 1
    /\ nlines[0] = 8 /\ nlines[1] = 8
    /\ Len(scanned[0]) = 2 /\ Len(scanned[1]) = 2
    /\ line_num = 2
====
